---- MODULE Spec2Model ----
(***************************************************************************)
(* Model of include/behaviortree_cpp/basic_types.h: the node enumerations, *)
(* the string converters (convertFromString, GetAnyFromStringFunctor),     *)
(* toStr, PortInfo, the port factories (CreatePort, InputPort, ...) and    *)
(* getProvidedPorts.                                                       *)
(*                                                                         *)
(* Text (std::string, StringView) is a sequence of one-character strings.  *)
(* A C++ type is named by its type tag (a string).  A call either returns  *)
(* or throws; an Outcome record says which.                                *)
(***************************************************************************)
EXTENDS Integers, Sequences, FiniteSets, TLC

(***************************************************************************)
(* Bounds of the model.                                                    *)
(***************************************************************************)
\* the largest magnitude of an int default value
MaxInt == 42
\* the largest number of ports a node type's providedPorts() declares
MaxPorts == 2

(***************************************************************************)
(* Enumerations.                                                           *)
(***************************************************************************)
NodeType_UNDEFINED == 0
NodeType_ACTION == 1
NodeType_CONDITION == 2
NodeType_CONTROL == 3
NodeType_DECORATOR == 4
NodeType_SUBTREE == 5
NodeType ==
  {NodeType_UNDEFINED, NodeType_ACTION, NodeType_CONDITION, NodeType_CONTROL,
   NodeType_DECORATOR, NodeType_SUBTREE}

IDLE == 0
RUNNING == 1
SUCCESS == 2
FAILURE == 3
SKIPPED == 4
NodeStatus == {IDLE, RUNNING, SUCCESS, FAILURE, SKIPPED}

INPUT == 0
OUTPUT == 1
INOUT == 2
PortDirection == {INPUT, OUTPUT, INOUT}

isStatusActive_OnlyIdle(status) == status # IDLE

isStatusActive(status) == status # IDLE /\ status # SKIPPED

isStatusCompleted(status) == status = SUCCESS \/ status = FAILURE

(***************************************************************************)
(* Text.                                                                   *)
(***************************************************************************)
EmptyText == << >>
S_name == <<"n", "a", "m", "e">>
S_ID == <<"I", "D">>
S_Name == <<"N", "a", "m", "e">>
S_speed == <<"s", "p", "e", "e", "d">>
S_under == <<"_", "x">>
S_digit == <<"1", "x">>
S_hi == <<"h", "i">>
S_true == <<"t", "r", "u", "e">>
S_false == <<"f", "a", "l", "s", "e">>
S_TRUE == <<"T", "R", "U", "E">>
S_FALSE == <<"F", "A", "L", "S", "E">>
S_yes == <<"y", "e", "s">>
S_abc == <<"a", "b", "c">>
S_42 == <<"4", "2">>
S_7lead == <<" ", " ", "7">>
S_7trail == <<"7", " ", " ">>
S_neg == <<"-", "1">>
S_12x == <<"1", "2", "x">>
S_RUNNING == <<"R", "U", "N", "N", "I", "N", "G">>
S_running == <<"r", "u", "n", "n", "i", "n", "g">>
S_ACTION == <<"A", "C", "T", "I", "O", "N">>
S_INOUT == <<"I", "N", "O", "U", "T">>

NodeStatusNames ==
  <<  <<"I", "D", "L", "E">>, S_RUNNING, <<"S", "U", "C", "C", "E", "S", "S">>,
      <<"F", "A", "I", "L", "U", "R", "E">>, <<"S", "K", "I", "P", "P", "E", "D">> >>

NodeTypeNames ==
  <<  <<"U", "N", "D", "E", "F", "I", "N", "E", "D">>, S_ACTION,
      <<"C", "O", "N", "D", "I", "T", "I", "O", "N">>, <<"C", "O", "N", "T", "R", "O", "L">>,
      <<"D", "E", "C", "O", "R", "A", "T", "O", "R">>, <<"S", "U", "B", "T", "R", "E", "E">> >>

PortDirectionNames ==
  <<  <<"I", "N", "P", "U", "T">>, <<"O", "U", "T", "P", "U", "T">>, S_INOUT >>

DigitChars == <<"0", "1", "2", "3", "4", "5", "6", "7", "8", "9">>
IsDigit(c) == \E i \in 1..10 : DigitChars[i] = c
DigitVal(c) == (CHOOSE i \in 1..10 : DigitChars[i] = c) - 1
UpperChars ==
  {"A", "B", "C", "D", "E", "F", "G", "H", "I", "J", "K", "L", "M",
   "N", "O", "P", "Q", "R", "S", "T", "U", "V", "W", "X", "Y", "Z"}
LowerChars ==
  {"a", "b", "c", "d", "e", "f", "g", "h", "i", "j", "k", "l", "m",
   "n", "o", "p", "q", "r", "s", "t", "u", "v", "w", "x", "y", "z"}
IsAlpha(c) == c \in UpperChars \/ c \in LowerChars
IsSpace(c) == c = " "

(***************************************************************************)
(* Types, type-erased values (Any) and outcomes of calls.                  *)
(***************************************************************************)
T_void == "void"
T_AnyTypeAllowed == "AnyTypeAllowed"
T_string == "std::string"
T_string_view == "std::string_view"
T_int == "int"
T_bool == "bool"
T_NodeStatus == "NodeStatus"
T_NodeType == "NodeType"
T_PortDirection == "PortDirection"
\* a user-defined struct: no convertFromString and no toStr specialization
T_Pose2D == "Pose2D"

Types ==
  {T_void, T_AnyTypeAllowed, T_string, T_string_view, T_int, T_bool,
   T_NodeStatus, T_NodeType, T_PortDirection, T_Pose2D}

\* the types with a convertFromString specialization
ParsedTypes == {T_string, T_int, T_bool, T_NodeStatus, T_NodeType, T_PortDirection}

\* std::is_constructible_v<StringView, T>
IsTextLike(T) == T \in {T_string, T_string_view}

\* std::is_arithmetic_v<T>
IsArithmetic(T) == T \in {T_int, T_bool}

\* the types with a toStr specialization
ToStrTypes == {T_bool, T_string, T_NodeStatus, T_NodeType, T_PortDirection}

\* BT::Any holding a value: the type tag, and the payload as a number (i) or as text (s)
MakeAny(T, i, s) == [type |-> T, i |-> i, s |-> s]
EmptyAny == MakeAny("empty", 0, EmptyText)
TextAny(T, s) == MakeAny(T, 0, s)
NumAny(T, i) == MakeAny(T, i, EmptyText)

\* what a call did: it returned (an Any, a StringConverter or a PortsList,
\* by the function's return type) or it threw exc, whose message names about
Outcome(kind, exc, about, any, conv, ports) ==
  [kind |-> kind, exc |-> exc, about |-> about, any |-> any, conv |-> conv, ports |-> ports]
NoConverter == [kind |-> "empty", T |-> "none"]
Return(any) == Outcome("return", "none", "none", any, NoConverter, {})
ReturnConverter(conv) == Outcome("return", "none", "none", EmptyAny, conv, {})
ReturnPorts(ports) == Outcome("return", "none", "none", EmptyAny, NoConverter, ports)
Throw(exc, about) == Outcome("throw", exc, about, EmptyAny, NoConverter, {})
NoOutcome == Outcome("none", "none", "none", EmptyAny, NoConverter, {})

(***************************************************************************)
(* convertFromString<T>.                                                   *)
(***************************************************************************)
RECURSIVE LTrim(_)
LTrim(s) == IF s # EmptyText /\ IsSpace(Head(s)) THEN LTrim(Tail(s)) ELSE s

RECURSIVE RTrim(_)
RTrim(s) ==
  IF s # EmptyText /\ IsSpace(s[Len(s)]) THEN RTrim(SubSeq(s, 1, Len(s) - 1)) ELSE s

AllDigits(s) == s # EmptyText /\ \A k \in 1..Len(s) : IsDigit(s[k])

RECURSIVE DecimalValue(_)
DecimalValue(s) ==
  IF s = EmptyText THEN 0
  ELSE 10 * DecimalValue(SubSeq(s, 1, Len(s) - 1)) + DigitVal(s[Len(s)])

\* the index of text in the sequence names, 0 when it is not one of them
IndexOf(names, text) ==
  IF \E k \in 1..Len(names) : names[k] = text
  THEN CHOOSE k \in 1..Len(names) : names[k] = text
  ELSE 0

convertFromString_StoresText(T, str) == Return(TextAny(T, str))

\* the primary template: no specialization for T
convertFromString_primary(T, str) == Throw("LogicError", T)

convertFromString_string(str) == Return(TextAny(T_string, str))

convertFromString_int(str) ==
  LET t == RTrim(LTrim(str))
      neg == t # EmptyText /\ Head(t) = "-"
      d == IF neg THEN Tail(t) ELSE t
  IN  IF AllDigits(d)
      THEN Return(NumAny(T_int, IF neg THEN 0 - DecimalValue(d) ELSE DecimalValue(d)))
      ELSE Throw("RuntimeError", T_int)

convertFromString_bool(str) ==
  IF str \in {<<"1">>, S_true, S_TRUE} THEN Return(NumAny(T_bool, 1))
  ELSE IF str \in {<<"0">>, S_false, S_FALSE} THEN Return(NumAny(T_bool, 0))
  ELSE Throw("RuntimeError", T_bool)

convertFromString_enum(T, names, str) ==
  IF IndexOf(names, str) # 0 THEN Return(NumAny(T, IndexOf(names, str) - 1))
  ELSE Throw("RuntimeError", T)

convertFromString(T, str) ==
  CASE T = T_string -> convertFromString_string(str)
    [] T = T_int -> convertFromString_int(str)
    [] T = T_bool -> convertFromString_bool(str)
    [] T = T_NodeStatus -> convertFromString_enum(T, NodeStatusNames, str)
    [] T = T_NodeType -> convertFromString_enum(T, NodeTypeNames, str)
    [] T = T_PortDirection -> convertFromString_enum(T, PortDirectionNames, str)
    [] OTHER -> convertFromString_primary(T, str)

(***************************************************************************)
(* StringConverter: a std::function<Any(StringView)>, which is empty or    *)
(* holds one of the two lambdas of GetAnyFromStringFunctor.                *)
(***************************************************************************)
EmptyConverter == NoConverter
StoreTextConverter == [kind |-> "store", T |-> "none"]
ParseConverter(T) == [kind |-> "parse", T |-> T]

GetAnyFromStringFunctor_AlwaysParses(T) ==
  IF T = T_void THEN EmptyConverter ELSE ParseConverter(T)

GetAnyFromStringFunctor(T) ==
  IF T = T_void THEN EmptyConverter
  ELSE IF IsTextLike(T) THEN StoreTextConverter
  ELSE ParseConverter(T)

\* converter(str): calling the std::function
Invoke(conv, str) ==
  CASE conv.kind = "empty" -> Throw("bad_function_call", "none")
    [] conv.kind = "store" -> Return(TextAny(T_string_view, str))
    [] OTHER -> convertFromString(conv.T, str)

(***************************************************************************)
(* toStr<T>.                                                               *)
(***************************************************************************)
RECURSIVE NatToText(_)
NatToText(n) ==
  IF n < 10 THEN <<DigitChars[n + 1]>>
  ELSE NatToText(n \div 10) \o <<DigitChars[(n % 10) + 1]>>

to_string(n) == IF n < 0 THEN <<"-">> \o NatToText(0 - n) ELSE NatToText(n)

\* the primary template
toStr_primary(value) ==
  IF ~IsArithmetic(value.type) THEN Throw("LogicError", value.type)
  ELSE Return(TextAny(T_string, to_string(value.i)))

toStr_bool(value) == Return(TextAny(T_string, IF value.i # 0 THEN S_true ELSE S_false))

toStr_string(value) == Return(TextAny(T_string, value.s))

toStr_NodeStatus(value) == Return(TextAny(T_string, NodeStatusNames[value.i + 1]))

toStr_NodeType(value) == Return(TextAny(T_string, NodeTypeNames[value.i + 1]))

toStr_PortDirection(value) == Return(TextAny(T_string, PortDirectionNames[value.i + 1]))

toStr(value) ==
  CASE value.type = T_bool -> toStr_bool(value)
    [] value.type = T_string -> toStr_string(value)
    [] value.type = T_NodeStatus -> toStr_NodeStatus(value)
    [] value.type = T_NodeType -> toStr_NodeType(value)
    [] value.type = T_PortDirection -> toStr_PortDirection(value)
    [] OTHER -> toStr_primary(value)

(***************************************************************************)
(* PortInfo.                                                               *)
(***************************************************************************)
demangle(type_info) == type_info

IsAllowedPortName(str) ==
  /\ str # EmptyText
  /\ IsAlpha(Head(str))
  /\ str # S_name
  /\ str # S_ID
  /\ Head(str) # "_"

\* PortInfo(PortDirection direction = PortDirection::INOUT)
PortInfo1(direction) ==
  [type_ |-> direction,
   type_info_ |-> T_AnyTypeAllowed,
   converter_ |-> EmptyConverter,
   description_ |-> EmptyText,
   default_value_ |-> EmptyAny,
   default_value_str_ |-> EmptyText,
   type_str_ |-> "AnyTypeAllowed"]

\* PortInfo(PortDirection direction, std::type_index type_info, StringConverter conv)
PortInfo3(direction, type_info, conv) ==
  [type_ |-> direction,
   type_info_ |-> type_info,
   converter_ |-> conv,
   description_ |-> EmptyText,
   default_value_ |-> EmptyAny,
   default_value_str_ |-> EmptyText,
   type_str_ |-> demangle(type_info)]

direction(p) == p.type_
type(p) == p.type_info_
typeName(p) == p.type_str_
description(p) == p.description_
defaultValue(p) == p.default_value_
defaultValueString(p) == p.default_value_str_
isStronglyTyped(p) == p.type_info_ # T_AnyTypeAllowed
converter(p) == p.converter_

parseString(p, str) ==
  IF p.converter_.kind # "empty" THEN Invoke(p.converter_, str) ELSE Return(EmptyAny)

setDescription(p, text) == [p EXCEPT !.description_ = text]

setDefaultValue_DropsConverter(p, default_value) ==
  [p EXCEPT !.default_value_ = default_value, !.converter_ = EmptyConverter]

setDefaultValue_StringOnly(p, default_value) ==
  LET r == toStr(default_value)
  IN  [p EXCEPT !.default_value_str_ = IF r.kind = "return" THEN r.any.s ELSE @]

\* default_value_ is assigned first; the assignment to default_value_str_ is
\* skipped when toStr throws LogicError, which the catch clause swallows
setDefaultValue(p, default_value) ==
  LET r == toStr(default_value)
  IN  [p EXCEPT !.default_value_ = default_value,
                !.default_value_str_ = IF r.kind = "return" THEN r.any.s ELSE @]

(***************************************************************************)
(* The port factories.  A factory returns a pair or throws.                *)
(***************************************************************************)
NoPair == [live |-> FALSE, first |-> EmptyText, second |-> PortInfo1(INOUT)]
Pair(name, p) == [live |-> TRUE, first |-> name, second |-> p]

CreatePort_Unchecked(T, dir, name, text) ==
  LET p == IF T = T_void THEN PortInfo1(dir)
           ELSE PortInfo3(dir, T, GetAnyFromStringFunctor(T))
  IN  Pair(name, IF text # EmptyText THEN setDescription(p, text) ELSE p)

\* NoPair stands for the RuntimeError thrown on a name that is not allowed
CreatePort(T, dir, name, text) ==
  IF ~IsAllowedPortName(name) THEN NoPair
  ELSE LET p == IF T = T_void THEN PortInfo1(dir)
                ELSE PortInfo3(dir, T, GetAnyFromStringFunctor(T))
       IN  Pair(name, IF text # EmptyText THEN setDescription(p, text) ELSE p)

InputPort(T, name, text) == CreatePort(T, INPUT, name, text)
OutputPort(T, name, text) == CreatePort(T, OUTPUT, name, text)
BidirectionalPort(T, name, text) == CreatePort(T, INOUT, name, text)

\* the overloads with a default value: T is the type of default_value
WithDefault(out, default_value) ==
  IF out.live THEN [out EXCEPT !.second = setDefaultValue(@, default_value)] ELSE out

InputPortDefault(name, default_value, text) ==
  WithDefault(CreatePort(default_value.type, INPUT, name, text), default_value)

BidirectionalPortDefault(name, default_value, text) ==
  WithDefault(CreatePort(default_value.type, INOUT, name, text), default_value)

(***************************************************************************)
(* getProvidedPorts<T>.  A node type is given by what it declares: no      *)
(* static providedPorts(), one that returns PortsList, or one that returns *)
(* another type; and by the ports its providedPorts() lists, each built by *)
(* InputPort<T>(name).                                                     *)
(***************************************************************************)
PortDecl(T, name) == [T |-> T, name |-> name]
PortDecls ==
  {PortDecl(T_int, S_speed), PortDecl(T_bool, S_speed), PortDecl(T_void, S_Name),
   PortDecl(T_int, S_name)}

RECURSIVE SeqsUpTo(_, _)
SeqsUpTo(S, n) ==
  IF n = 0 THEN {<< >>}
  ELSE LET shorter == SeqsUpTo(S, n - 1)
       IN  shorter \cup {Append(q, x) : q \in shorter, x \in S}

NodeClass(decl, body) == [decl |-> decl, body |-> body]
NoNodeClass == NodeClass("none", << >>)
NodeClasses ==
  {NoNodeClass} \cup
  {NodeClass(decl, body) : decl \in {"PortsList", "other"}, body \in SeqsUpTo(PortDecls, MaxPorts)}

\* PortsList{pair, pair, ...}: an unordered_map keeps the first pair of each key
RECURSIVE MakePortsList(_)
MakePortsList(pairs) ==
  IF pairs = << >> THEN {}
  ELSE LET before == MakePortsList(SubSeq(pairs, 1, Len(pairs) - 1))
           last == pairs[Len(pairs)]
       IN  IF \E q \in before : q.first = last.first THEN before
           ELSE before \cup {[first |-> last.first, second |-> last.second]}

\* N::providedPorts(): return { InputPort<T>(name), ... };
providedPorts(N) ==
  LET pairs == [k \in 1..Len(N.body) |-> InputPort(N.body[k].T, N.body[k].name, EmptyText)]
  IN  IF \E k \in 1..Len(pairs) : ~pairs[k].live THEN Throw("RuntimeError", "none")
      ELSE ReturnPorts(MakePortsList(pairs))

has_static_method_providedPorts(N) == N.decl = "PortsList"

getProvidedPorts_AlwaysEmpty(N) == ReturnPorts({})

getProvidedPorts(N) ==
  IF has_static_method_providedPorts(N) THEN providedPorts(N) ELSE ReturnPorts({})

(***************************************************************************)
(* State.                                                                  *)
(*   out     the pair (name, PortInfo) under observation, followed from    *)
(*           the factory or constructor call that produced it; out.live is *)
(*           FALSE while there is none (no call yet, or the call threw)    *)
(*   call    the latest call: the function and its arguments               *)
(*   ret     what the latest call did                                      *)
(*   status, active, completed                                             *)
(*           the NodeStatus last queried, and what isStatusActive and      *)
(*           isStatusCompleted returned for it                             *)
(***************************************************************************)
VARIABLES out, call, ret, status, active, completed

vars == <<out, call, ret, status, active, completed>>

Call(op, T, name, text, arg, node) ==
  [op |-> op, T |-> T, name |-> name, text |-> text, arg |-> arg, node |-> node]
NoCall == Call("none", "none", EmptyText, EmptyText, EmptyAny, NoNodeClass)

\* the inputs
Names == {EmptyText, S_name, S_ID, S_under, S_digit, S_speed, S_Name}
Descriptions == {EmptyText, S_hi}
Texts ==
  {EmptyText, S_42, S_7lead, S_7trail, S_neg, S_12x, S_abc, <<"1">>, <<"0">>,
   S_true, S_FALSE, S_yes, S_RUNNING, S_running, S_ACTION, S_INOUT}
DefaultValues ==
  {NumAny(T_int, 0 - MaxInt), NumAny(T_int, 0), NumAny(T_int, MaxInt),
   NumAny(T_bool, 0), NumAny(T_bool, 1),
   TextAny(T_string, EmptyText), TextAny(T_string, S_hi),
   NumAny(T_NodeStatus, SUCCESS), NumAny(T_NodeType, NodeType_ACTION),
   NumAny(T_PortDirection, INOUT),
   NumAny(T_Pose2D, 1)}

Init ==
  /\ out = NoPair
  /\ call = NoCall
  /\ ret = NoOutcome
  /\ status = IDLE
  /\ active = FALSE
  /\ completed = FALSE

\* a factory returned pair, or threw RuntimeError
Made(pair) == IF pair.live THEN Return(EmptyAny) ELSE Throw("RuntimeError", "none")

CreatePortCall ==
  \E T \in Types, dir \in PortDirection, name \in Names, text \in Descriptions :
    /\ ~out.live
    /\ out' = CreatePort(T, dir, name, text)
    /\ call' = Call("CreatePort", T, name, text, EmptyAny, NoNodeClass)
    /\ ret' = Made(out')
    /\ UNCHANGED <<status, active, completed>>

InputPortCall ==
  \E T \in Types, name \in Names, text \in Descriptions :
    /\ ~out.live
    /\ out' = InputPort(T, name, text)
    /\ call' = Call("InputPort", T, name, text, EmptyAny, NoNodeClass)
    /\ ret' = Made(out')
    /\ UNCHANGED <<status, active, completed>>

OutputPortCall ==
  \E T \in Types, name \in Names, text \in Descriptions :
    /\ ~out.live
    /\ out' = OutputPort(T, name, text)
    /\ call' = Call("OutputPort", T, name, text, EmptyAny, NoNodeClass)
    /\ ret' = Made(out')
    /\ UNCHANGED <<status, active, completed>>

BidirectionalPortCall ==
  \E T \in Types, name \in Names, text \in Descriptions :
    /\ ~out.live
    /\ out' = BidirectionalPort(T, name, text)
    /\ call' = Call("BidirectionalPort", T, name, text, EmptyAny, NoNodeClass)
    /\ ret' = Made(out')
    /\ UNCHANGED <<status, active, completed>>

InputPortDefaultCall ==
  \E name \in Names, v \in DefaultValues, text \in Descriptions :
    /\ ~out.live
    /\ out' = InputPortDefault(name, v, text)
    /\ call' = Call("InputPortDefault", v.type, name, text, v, NoNodeClass)
    /\ ret' = Made(out')
    /\ UNCHANGED <<status, active, completed>>

BidirectionalPortDefaultCall ==
  \E name \in Names, v \in DefaultValues, text \in Descriptions :
    /\ ~out.live
    /\ out' = BidirectionalPortDefault(name, v, text)
    /\ call' = Call("BidirectionalPortDefault", v.type, name, text, v, NoNodeClass)
    /\ ret' = Made(out')
    /\ UNCHANGED <<status, active, completed>>

\* PortInfo(direction), a port with no name
PortInfo1Call ==
  \E dir \in PortDirection :
    /\ ~out.live
    /\ out' = Pair(EmptyText, PortInfo1(dir))
    /\ call' = Call("PortInfo1", T_AnyTypeAllowed, EmptyText, EmptyText, EmptyAny, NoNodeClass)
    /\ ret' = Return(EmptyAny)
    /\ UNCHANGED <<status, active, completed>>

\* PortInfo(direction, typeid(T), GetAnyFromStringFunctor<T>()), as CreatePort calls it
PortInfo3Call ==
  \E dir \in PortDirection, T \in Types :
    /\ ~out.live
    /\ out' = Pair(EmptyText, PortInfo3(dir, T, GetAnyFromStringFunctor(T)))
    /\ call' = Call("PortInfo3", T, EmptyText, EmptyText, EmptyAny, NoNodeClass)
    /\ ret' = Return(EmptyAny)
    /\ UNCHANGED <<status, active, completed>>

SetDescriptionCall ==
  \E text \in Descriptions :
    /\ out.live
    /\ out' = [out EXCEPT !.second = setDescription(@, text)]
    /\ call' = Call("setDescription", "none", EmptyText, text, EmptyAny, NoNodeClass)
    /\ ret' = Return(EmptyAny)
    /\ UNCHANGED <<status, active, completed>>

SetDefaultValueCall ==
  \E v \in DefaultValues :
    /\ out.live
    /\ out' = [out EXCEPT !.second = setDefaultValue(@, v)]
    /\ call' = Call("setDefaultValue", v.type, EmptyText, EmptyText, v, NoNodeClass)
    /\ ret' = Return(EmptyAny)
    /\ UNCHANGED <<status, active, completed>>

ParseStringCall ==
  \E str \in Texts :
    /\ out.live
    /\ call' = Call("parseString", out.second.type_info_, EmptyText, str, EmptyAny, NoNodeClass)
    /\ ret' = parseString(out.second, str)
    /\ UNCHANGED <<out, status, active, completed>>

\* port.converter()(str)
ConverterCall ==
  \E str \in Texts :
    /\ out.live
    /\ call' = Call("converter", out.second.type_info_, EmptyText, str, EmptyAny, NoNodeClass)
    /\ ret' = Invoke(converter(out.second), str)
    /\ UNCHANGED <<out, status, active, completed>>

Next ==
  \/ CreatePortCall
  \/ InputPortCall
  \/ OutputPortCall
  \/ BidirectionalPortCall
  \/ InputPortDefaultCall
  \/ BidirectionalPortDefaultCall
  \/ PortInfo1Call
  \/ PortInfo3Call
  \/ SetDescriptionCall
  \/ SetDefaultValueCall
  \/ ParseStringCall
  \/ ConverterCall

Spec == Init /\ [][Next]_vars

(***************************************************************************)
(* The functions on their own: each step calls one with inputs drawn from  *)
(* the sets above.                                                         *)
(***************************************************************************)
ConvertFromStringCall ==
  \E T \in Types \ {T_void}, str \in Texts :
    /\ call' = Call("convertFromString", T, EmptyText, str, EmptyAny, NoNodeClass)
    /\ ret' = convertFromString(T, str)
    /\ UNCHANGED <<out, status, active, completed>>

GetAnyFromStringFunctorCall ==
  \E T \in Types :
    /\ call' = Call("GetAnyFromStringFunctor", T, EmptyText, EmptyText, EmptyAny, NoNodeClass)
    /\ ret' = ReturnConverter(GetAnyFromStringFunctor(T))
    /\ UNCHANGED <<out, status, active, completed>>

\* GetAnyFromStringFunctor<T>()(str)
FunctorInvokeCall ==
  \E T \in Types, str \in Texts :
    /\ call' = Call("GetAnyFromStringFunctor()", T, EmptyText, str, EmptyAny, NoNodeClass)
    /\ ret' = Invoke(GetAnyFromStringFunctor(T), str)
    /\ UNCHANGED <<out, status, active, completed>>

\* InputPort<T>(name).second.converter()(str)
DeclaredPortConverterCall ==
  \E T \in Types, name \in {S_speed, S_Name}, str \in Texts :
    LET port == InputPort(T, name, EmptyText)
    IN  /\ port.live
        /\ call' = Call("InputPort.converter", T, name, str, EmptyAny, NoNodeClass)
        /\ ret' = Invoke(converter(port.second), str)
        /\ UNCHANGED <<out, status, active, completed>>

GetProvidedPortsCall ==
  \E N \in NodeClasses :
    /\ call' = Call("getProvidedPorts", "none", EmptyText, EmptyText, EmptyAny, N)
    /\ ret' = getProvidedPorts(N)
    /\ UNCHANGED <<out, status, active, completed>>

IsStatusCall ==
  \E s \in NodeStatus :
    /\ status' = s
    /\ active' = isStatusActive(s)
    /\ completed' = isStatusCompleted(s)
    /\ call' = Call("isStatus", "none", EmptyText, EmptyText, EmptyAny, NoNodeClass)
    /\ UNCHANGED <<out, ret>>

NextFn ==
  \/ ConvertFromStringCall
  \/ GetAnyFromStringFunctorCall
  \/ FunctorInvokeCall
  \/ DeclaredPortConverterCall
  \/ GetProvidedPortsCall
  \/ IsStatusCall

SpecFn == Init /\ [][NextFn]_vars

(***************************************************************************)
(* Properties.                                                             *)
(***************************************************************************)
FactoryOps ==
  {"CreatePort", "InputPort", "OutputPort", "BidirectionalPort",
   "InputPortDefault", "BidirectionalPortDefault"}
DefaultOps == {"setDefaultValue", "InputPortDefault", "BidirectionalPortDefault"}

\* the names the port-name grammar rejects
Rejected(n) ==
  \/ n = EmptyText
  \/ n[1] \notin UpperChars \cup LowerChars
  \/ n = S_name
  \/ n = S_ID
  \/ n[1] = "_"

\* C1: every factory validates the name first: on an empty name, a name that
\* does not begin with a letter, `name`, `ID` or a name beginning with an
\* underscore it throws and there is no port; on any other name it returns a
\* pair whose key is exactly that name.
C1_NameValidated ==
  call.op \in FactoryOps =>
    IF Rejected(call.name)
    THEN ret.kind = "throw" /\ ret.exc = "RuntimeError" /\ out = NoPair
    ELSE ret.kind = "return" /\ out.live /\ out.first = call.name

C1_Witness ==
  /\ call.op = "InputPortDefault"
  /\ call.name = S_under
  /\ ret.kind = "throw"
  /\ ~out.live

\* C2: a port whose type identity is not the AnyTypeAllowed sentinel is strongly
\* typed and carries the converter built for its type; a port whose type
\* identity is the sentinel is not strongly typed and has an empty converter.
C2_TypedIffConverter ==
  out.live =>
    IF type(out.second) = T_AnyTypeAllowed
    THEN ~isStronglyTyped(out.second) /\ converter(out.second).kind = "empty"
    ELSE /\ isStronglyTyped(out.second)
         /\ converter(out.second) = GetAnyFromStringFunctor(type(out.second))

\* C3: after setDefaultValue with a value whose toStr throws, on a port in any
\* state, the call has returned, defaultValue() is the new value and
\* defaultValueString() is empty.
C3_NonRenderableLeavesEmptyString ==
  (call.op = "setDefaultValue" /\ call.arg.type = T_Pose2D) =>
    /\ ret.kind = "return"
    /\ defaultValue(out.second) = call.arg
    /\ defaultValueString(out.second) = EmptyText

Renderable == {T_int, T_bool, T_string, T_NodeStatus, T_NodeType, T_PortDirection}

C5_FunctorByType ==
  /\ call.op = "GetAnyFromStringFunctor" =>
       /\ ret.kind = "return"
       /\ ret.conv.kind = "empty" <=> call.T = T_void
  /\ call.op = "GetAnyFromStringFunctor()" =>
       IF call.T = T_void THEN ret.kind = "throw" /\ ret.exc = "bad_function_call"
       ELSE IF call.T \in {T_string, T_string_view}
            THEN ret.kind = "return" /\ ret.any.s = call.text /\ ret.any.i = 0
       ELSE ret = convertFromString(call.T, call.text)

C5_Witness ==
  /\ call.op = "GetAnyFromStringFunctor()"
  /\ call.T = T_string_view
  /\ call.text = S_abc
  /\ ret.kind = "return"
  /\ ret.any.s = S_abc

\* C6: converting a text through a port's converter or parseString, for a port
\* of a type that has a parser, never throws: the call returns, with a value or
\* with an error value.
C6_MalformedIsErrorValue ==
  (/\ call.op \in {"parseString", "converter"}
   /\ call.T \in {T_int, T_bool, T_NodeStatus, T_NodeType, T_PortDirection})
    => ret.kind # "throw"

NoParser == {T_AnyTypeAllowed, T_string_view, T_Pose2D}

\* C7 as stated: for every type T without a convertFromString specialization
\* and every text, convertFromString<T> throws a LogicError naming T, and so
\* does the converter of a port declared with T.
C7_NoParserAlwaysThrows ==
  (call.op \in {"convertFromString", "InputPort.converter"} /\ call.T \in NoParser)
    => ret = Throw("LogicError", call.T)

\* C7 as amended: for every type T without a convertFromString specialization
\* and every text, convertFromString<T> throws a LogicError naming T; so does
\* the converter of a port declared with T unless T is text-like, and then the
\* converter returns the text and never throws.
C7_NoParserThrowsUnlessTextLike ==
  /\ (call.op = "convertFromString" /\ call.T \in NoParser)
       => ret = Throw("LogicError", call.T)
  /\ (call.op = "InputPort.converter" /\ call.T \in NoParser) =>
       IF call.T = T_string_view
       THEN ret.kind = "return" /\ ret.any.s = call.text
       ELSE ret = Throw("LogicError", call.T)

C7_Witness ==
  /\ call.op = "InputPort.converter"
  /\ call.T = T_Pose2D
  /\ call.text = EmptyText
  /\ ret.kind = "throw"
  /\ ret.about = T_Pose2D

\* the port names a node type's providedPorts() lists
ListedNames(N) == {N.body[k].name : k \in 1..Len(N.body)}
\* the first port listed under name n
FirstListed(N, n) ==
  N.body[CHOOSE k \in 1..Len(N.body) :
           N.body[k].name = n /\ \A j \in 1..(k - 1) : N.body[j].name # n]

\* C8 as stated: getProvidedPorts<N>() never throws; it returns an empty
\* PortsList when N declares no providedPorts(), and what N::providedPorts()
\* returns when N declares one.
C8_NeverFails ==
  call.op = "getProvidedPorts" =>
    /\ ret.kind = "return"
    /\ call.node.decl = "none" => ret.ports = {}
    /\ call.node.decl = "PortsList" => ret = providedPorts(call.node)

\* C8 as amended: when N declares a static providedPorts() returning exactly
\* PortsList, getProvidedPorts<N>() does what N::providedPorts() does: it
\* throws when that throws (a listed port name is rejected) and otherwise
\* returns its PortsList, one port per listed name; for every other N it
\* returns an empty PortsList and does not throw.
C8_AsDeclared ==
  call.op = "getProvidedPorts" =>
    IF call.node.decl = "PortsList"
    THEN /\ ret = providedPorts(call.node)
         /\ ret.kind = "throw" <=> \E n \in ListedNames(call.node) : Rejected(n)
         /\ ret.kind = "return" =>
              /\ {q.first : q \in ret.ports} = ListedNames(call.node)
              /\ \A q \in ret.ports :
                   type(q.second) =
                     IF FirstListed(call.node, q.first).T = T_void THEN T_AnyTypeAllowed
                     ELSE FirstListed(call.node, q.first).T
    ELSE ret.kind = "return" /\ ret.ports = {}

C8_Witness ==
  /\ call.op = "getProvidedPorts"
  /\ call.node.decl = "PortsList"
  /\ Len(call.node.body) = 2
  /\ ret.kind = "return"
  /\ Cardinality(ret.ports) = 2

\* C9: a setDescription or setDefaultValue call on a port leaves converter(),
\* direction(), type(), typeName() and isStronglyTyped() as they were;
\* setDescription changes nothing but the description, setDefaultValue nothing
\* but the default value and its rendered string.
C9_ConverterFixed ==
  [][(out.live /\ out'.live) =>
       /\ converter(out'.second) = converter(out.second)
       /\ direction(out'.second) = direction(out.second)
       /\ type(out'.second) = type(out.second)
       /\ typeName(out'.second) = typeName(out.second)
       /\ isStronglyTyped(out'.second) = isStronglyTyped(out.second)
       /\ out'.first = out.first
       /\ call'.op = "setDescription" =>
            out'.second = [out.second EXCEPT !.description_ = call'.text]
       /\ call'.op = "setDefaultValue" =>
            [out'.second EXCEPT !.default_value_ = out.second.default_value_,
                                !.default_value_str_ = out.second.default_value_str_]
              = out.second
    ]_vars

C9_Witness ==
  /\ call.op = "setDefaultValue"
  /\ call.arg.type = T_Pose2D
  /\ converter(out.second) = ParseConverter(T_int)
  /\ description(out.second) = S_hi
  /\ defaultValueString(out.second) = to_string(MaxInt)

\* C10: isStatusActive(s) holds exactly when s is neither IDLE nor SKIPPED and
\* isStatusCompleted(s) exactly when s is SUCCESS or FAILURE; a completed status
\* is active, and RUNNING is the only status active and not completed.
C10_StatusPredicates ==
  /\ active <=> status \notin {IDLE, SKIPPED}
  /\ completed <=> status \in {SUCCESS, FAILURE}
  /\ completed => active
  /\ (active /\ ~completed) <=> status = RUNNING

C10_Witness == call.op = "isStatus" /\ status = SKIPPED /\ ~active /\ ~completed

====
